---- MODULE Spec2Model ----
(***************************************************************************)
(* Model of the AI EDA page (src/pages/2_AI_EDA.py): the thread store      *)
(* backed by .history_cache.json, the NL->SQL pipeline with one            *)
(* self-correction, and the new_analysis / view_thread page flow; plus     *)
(* the single-shot pipeline of src/pages/2_AI_DB_Analyst.py.               *)
(*                                                                         *)
(* Text (questions, reports, titles) is a sequence of character codes.     *)
(* The history file is a sequence of JSON tokens; object keys are left     *)
(* out, the fields of a record are written in the order id, title,         *)
(* messages and role, content.                                             *)
(***************************************************************************)
EXTENDS Integers, Sequences, FiniteSets, TLC

VARIABLES disk, analysis_threads, threads_pytype, current_view,
          selected_thread_id, next_uuid, write_budget, last, call, cache,
          other_session

vars == <<disk, analysis_threads, threads_pytype, current_view,
          selected_thread_id, next_uuid, write_budget, last, call, cache,
          other_session>>

\* ---------------------------------------------------------------- bounds
\* threads created in one behaviour; messages held by the collection beyond
\* which no follow-up is submitted; writes to the history file that may fail
MaxThreadsCreated == 1
MaxMessages == 5
MaxWriteFailures == 1
\* parts an LLM response is put together from; characters of a question;
\* tables of the database
MaxSegments == 5
MaxQuestionLen == 38
MaxTables == 3
\* clock ticks of half an hour; changes of the database schema
MaxClock == 3
MaxSchema == 2

\* ---------------------------------------------------------------- text
DOT == 46
Q_SHORT == <<81>>
Q_LONG == [i \in 1..36 |-> 76]
Q_FOLLOW == <<70>>
NewQuestions == {Q_LONG}
FollowUpQuestions == {Q_FOLLOW}
R_TEXT == <<82>>
R_EMPTY == <<>>

TRUNCATE_MAX_LENGTH == 35

\* truncate_text with >= in place of >
truncate_text_AtLimit(text) ==
    IF Len(text) >= TRUNCATE_MAX_LENGTH
    THEN SubSeq(text, 1, TRUNCATE_MAX_LENGTH) \o <<DOT, DOT, DOT>>
    ELSE text

truncate_text(text) ==
    IF Len(text) > TRUNCATE_MAX_LENGTH
    THEN SubSeq(text, 1, TRUNCATE_MAX_LENGTH) \o <<DOT, DOT, DOT>>
    ELSE text

\* ---------------------------------------------------------------- JSON file
Tok(k, v) == [k |-> k, v |-> v]
P(k) == Tok(k, <<>>)
Roles == {"user", "assistant"}

RECURSIVE DumpMessages(_)
DumpMessages(ms) ==
    IF ms = <<>> THEN <<>>
    ELSE <<P("{"), P(Head(ms).role), Tok("text", Head(ms).content), P("}")>>
         \o DumpMessages(Tail(ms))

DumpThread_NoTitle(t) ==
    <<P("{"), Tok("text", <<t.id>>), Tok("text", <<>>), P("[")>>
    \o DumpMessages(t.messages) \o <<P("]"), P("}")>>

DumpThread(t) ==
    <<P("{"), Tok("text", <<t.id>>), Tok("text", t.title), P("[")>>
    \o DumpMessages(t.messages) \o <<P("]"), P("}")>>

RECURSIVE DumpThreads(_)
DumpThreads(ts) ==
    IF ts = <<>> THEN <<>> ELSE DumpThread(Head(ts)) \o DumpThreads(Tail(ts))

\* json.dump(threads, f): the text of a list of thread records
json_dump(ts) == <<P("[")>> \o DumpThreads(ts) \o <<P("]")>>

ParseFail == [ok |-> FALSE, val |-> <<>>, next |-> 0]

RECURSIVE ParseMessages(_, _, _)
ParseMessages(t, i, acc) ==
    IF i > Len(t) THEN ParseFail
    ELSE IF t[i].k = "]" THEN [ok |-> TRUE, val |-> acc, next |-> i + 1]
    ELSE IF /\ i + 3 <= Len(t)
            /\ t[i].k = "{"
            /\ t[i+1].k \in Roles
            /\ t[i+2].k = "text"
            /\ t[i+3].k = "}"
         THEN ParseMessages(t, i + 4,
                  Append(acc, [role |-> t[i+1].k, content |-> t[i+2].v]))
         ELSE ParseFail

RECURSIVE ParseThreads(_, _, _)
ParseThreads(t, i, acc) ==
    IF i > Len(t) THEN ParseFail
    ELSE IF t[i].k = "]" THEN [ok |-> TRUE, val |-> acc, next |-> i + 1]
    ELSE IF /\ i + 3 <= Len(t)
            /\ t[i].k = "{"
            /\ t[i+1].k = "text" /\ Len(t[i+1].v) = 1
            /\ t[i+2].k = "text"
            /\ t[i+3].k = "["
         THEN LET m == ParseMessages(t, i + 4, <<>>) IN
              IF m.ok /\ m.next <= Len(t) /\ t[m.next].k = "}"
              THEN ParseThreads(t, m.next + 1,
                       Append(acc, [id |-> t[i+1].v[1], title |-> t[i+2].v,
                                    messages |-> m.val]))
              ELSE ParseFail
         ELSE ParseFail

\* json.load(f) on the text of the file.  exc is "" when a value is
\* returned; pytype is the Python type of that value.
json_load(t) ==
    IF \E i \in 1..Len(t) : t[i].k = "xff"
    THEN [exc |-> "UnicodeDecodeError", pytype |-> "", value |-> <<>>]
    ELSE IF t = <<P("null")>>
    THEN [exc |-> "", pytype |-> "NoneType", value |-> <<>>]
    ELSE IF t = <<P("{"), P("}")>>
    THEN [exc |-> "", pytype |-> "dict", value |-> <<>>]
    ELSE IF t # <<>> /\ t[1].k = "["
    THEN LET r == ParseThreads(t, 2, <<>>) IN
         IF r.ok /\ r.next = Len(t) + 1
         THEN [exc |-> "", pytype |-> "list", value |-> r.val]
         ELSE [exc |-> "JSONDecodeError", pytype |-> "", value |-> <<>>]
    ELSE [exc |-> "JSONDecodeError", pytype |-> "", value |-> <<>>]

\* ---------------------------------------------------------------- file I/O
NoFile == [exists |-> FALSE, text |-> <<>>]
File(t) == [exists |-> TRUE, text |-> t]

\* outcome of open(..., "w") + json.dump: written whole, open refused
\* (IOError, file untouched), or the file truncated by open and the write
\* failing during the dump (IOError, a strict prefix of the text is left)
WriteOutcomes == {"ok", "open_fails", "write_fails"}

save_threads_to_disk(ts, d, w) ==
    CASE w = "ok" -> File(json_dump(ts))
      [] w = "open_fails" -> d
      [] OTHER -> File(SubSeq(json_dump(ts), 1, Len(json_dump(ts)) - 1))

load_threads_from_disk(d) ==
    IF ~d.exists THEN [raised |-> FALSE, pytype |-> "list", value |-> <<>>]
    ELSE LET r == json_load(d.text) IN
         IF r.exc = "JSONDecodeError"
         THEN [raised |-> FALSE, pytype |-> "list", value |-> <<>>]
         ELSE IF r.exc # ""
         THEN [raised |-> TRUE, pytype |-> "unset", value |-> <<>>]
         ELSE [raised |-> FALSE, pytype |-> r.pytype, value |-> r.value]

\* ---------------------------------------------------------------- LLM, SQL
\* An LLM response is a sequence of pieces of text: three backquotes, the
\* word sql, a newline, a space, or other text without any of these.
FENCE == "<3 backquotes>"
SQL_LABEL == "sql"
NEWLINE == "<newline>"
WS == " "
Whitespace == {WS, NEWLINE}

\* the two literal parts of the pattern around (.*?)
FENCE_OPEN == <<FENCE, SQL_LABEL, NEWLINE>>
FENCE_CLOSE == <<NEWLINE, FENCE>>

RECURSIVE lstrip(_)
lstrip(s) == IF s # <<>> /\ Head(s) \in Whitespace THEN lstrip(Tail(s)) ELSE s

RECURSIVE rstrip(_)
rstrip(s) ==
    IF s # <<>> /\ s[Len(s)] \in Whitespace
    THEN rstrip(SubSeq(s, 1, Len(s) - 1)) ELSE s

strip(s) == rstrip(lstrip(s))

\* text p is in text r at position i
OccursAt(p, r, i) ==
    i >= 1 /\ i + Len(p) - 1 <= Len(r) /\ SubSeq(r, i, i + Len(p) - 1) = p

\* the pattern matches from position i: the opener is at i and the closer
\* somewhere after the opener
MatchesFrom(r, i) ==
    /\ OccursAt(FENCE_OPEN, r, i)
    /\ \E j \in (i + Len(FENCE_OPEN))..Len(r) : OccursAt(FENCE_CLOSE, r, j)

\* re.search(opener (.*?) closer, full_response, re.DOTALL): the leftmost
\* position the pattern matches from, and the nearest closer after it
HasMatch(r) == \E i \in 1..Len(r) : MatchesFrom(r, i)

MatchStart(r) ==
    CHOOSE i \in 1..Len(r) :
        MatchesFrom(r, i) /\ \A i2 \in 1..(i-1) : ~MatchesFrom(r, i2)

MatchEnd(r) ==
    CHOOSE j \in (MatchStart(r) + Len(FENCE_OPEN))..Len(r) :
        /\ OccursAt(FENCE_CLOSE, r, j)
        /\ \A j2 \in (MatchStart(r) + Len(FENCE_OPEN))..(j-1) :
              ~OccursAt(FENCE_CLOSE, r, j2)

\* the pattern with (.*) in place of (.*?): the last closer
get_sql_from_ai_response_Greedy(r) ==
    IF HasMatch(r)
    THEN LET last_closer ==
                 CHOOSE j \in (MatchStart(r) + Len(FENCE_OPEN))..Len(r) :
                     /\ OccursAt(FENCE_CLOSE, r, j)
                     /\ \A j2 \in (j+1)..Len(r) : ~OccursAt(FENCE_CLOSE, r, j2) IN
         strip(SubSeq(r, MatchStart(r) + Len(FENCE_OPEN), last_closer - 1))
    ELSE strip(r)

get_sql_from_ai_response(r) ==
    IF HasMatch(r)
    THEN strip(SubSeq(r, MatchStart(r) + Len(FENCE_OPEN), MatchEnd(r) - 1))
    ELSE strip(r)

\* ---------------------------------------------------------------- schema context
\* The context is a text of parts: the DDL header, the DDL of a table, the
\* examples header, an example file, and the blank line that joins them.
Part(kind, name) == [kind |-> kind, name |-> name]
HEADER_DDL == Part("header_ddl", 0)
HEADER_EXAMPLES == Part("header_examples", 0)
BLANK_LINE == Part("blank_line", 0)

\* "\n\n".join(context_parts)
RECURSIVE join_parts(_)
join_parts(parts) ==
    IF parts = <<>> THEN <<>>
    ELSE IF Len(parts) = 1 THEN parts
    ELSE <<Head(parts), BLANK_LINE>> \o join_parts(Tail(parts))

\* the second block of both builders: the files under queries/
example_parts(query_files) ==
    IF query_files = <<>> THEN <<>>
    ELSE <<HEADER_EXAMPLES>> \o [i \in 1..Len(query_files) |-> Part("example", query_files[i])]

\* 2_AI_EDA: the try is inside the loop, one per table
RECURSIVE eda_ddl_loop(_, _)
eda_ddl_loop(table_names, failing) ==
    IF table_names = <<>> THEN [parts |-> <<>>, warnings |-> 0]
    ELSE LET rest == eda_ddl_loop(Tail(table_names), failing) IN
         IF Head(table_names) \in failing
         THEN [rest EXCEPT !.warnings = @ + 1]
         ELSE [rest EXCEPT !.parts = <<Part("ddl", Head(table_names))>> \o @]

get_database_context(table_names, failing, query_files) ==
    LET loop == eda_ddl_loop(table_names, failing) IN
    [raised |-> FALSE,
     warnings |-> loop.warnings,
     context |-> join_parts(<<HEADER_DDL>> \o loop.parts \o example_parts(query_files))]

\* 2_AI_DB_Analyst: the loop is inside one try, so the first failing table
\* ends the loop
RECURSIVE dba_ddl_loop(_, _)
dba_ddl_loop(table_names, failing) ==
    IF table_names = <<>> THEN [parts |-> <<>>, warnings |-> 0]
    ELSE IF Head(table_names) \in failing THEN [parts |-> <<>>, warnings |-> 1]
    ELSE LET rest == dba_ddl_loop(Tail(table_names), failing) IN
         [rest EXCEPT !.parts = <<Part("ddl", Head(table_names))>> \o @]

dba_get_database_context(table_names, failing, query_files) ==
    LET loop == dba_ddl_loop(table_names, failing) IN
    [raised |-> FALSE,
     warnings |-> loop.warnings,
     context |-> join_parts(<<HEADER_DDL>> \o loop.parts \o example_parts(query_files))]

\* get_ai_response(prompt): None when the API call raises (ok = FALSE), else
\* the streamed response
LLMFail == [ok |-> FALSE, resp |-> <<>>]
LLMOk(r) == [ok |-> TRUE, resp |-> r]

GenResponses == {<<"here:">> \o FENCE_OPEN \o <<"S1">> \o FENCE_CLOSE}
CorrResponses == {<<WS, "S2", WS>>}
ReportTexts == {R_EMPTY, R_TEXT}

\* "".join(list(None)) raises TypeError
TYPE_ERROR == "TypeError"
EXEC_OK == ""

\* what the LLM and the database answer during one pipeline run: the
\* generation call, the correction call, and for each of the two attempts the
\* execution result (EXEC_OK or the error text) and the report call
Oracles ==
    [gen : {LLMFail} \cup {LLMOk(r) : r \in GenResponses},
     corr : {LLMFail} \cup {LLMOk(r) : r \in CorrResponses},
     exec : {<<a, b>> : a \in {EXEC_OK, "E1"}, b \in {EXEC_OK, "E2"}},
     rep : {<<a, b>> : a \in {LLMFail} \cup {LLMOk(r) : r \in ReportTexts},
                       b \in {LLMFail} \cup {LLMOk(r) : r \in ReportTexts}}]

\* one step of a run: op is the call made, ok whether it returned normally;
\* sql and err are the SQL executed and the database error (exec) or the
\* faulty_sql and error_message put into the prompt (llm_corrector)
Ev(op, ok, sql, err) == [op |-> op, ok |-> ok, sql |-> sql, err |-> err]

\* result of a pipeline run.  outcome: "report" (returned), "stopped"
\* (st.error + st.code + st.stop), "raised" (uncaught exception), "none"
NoRun ==
    [page |-> "", outcome |-> "none", report |-> <<>>, trace |-> <<>>,
     shown_error |-> "", shown_sql |-> <<>>]

PipeResult(page, outcome, report, trace, err, sql) ==
    [page |-> page, outcome |-> outcome, report |-> report, trace |-> trace,
     shown_error |-> err, shown_sql |-> sql]

MAX_ATTEMPTS == 2

RECURSIVE pipeline_attempt(_, _, _, _)
RECURSIVE pipeline_except(_, _, _, _, _)

\* body of "for attempt in range(2): try: ..."
pipeline_attempt(attempt, generated_sql, tr, o) ==
    IF attempt >= MAX_ATTEMPTS
    THEN PipeResult("eda", "none", <<>>, tr, "", <<>>)
    ELSE LET ex == o.exec[attempt + 1]
             tr1 == Append(tr, Ev("exec", ex = EXEC_OK, generated_sql, ex)) IN
         IF ex # EXEC_OK
         THEN pipeline_except(attempt, generated_sql, ex, tr1, o)
         ELSE LET rp == o.rep[attempt + 1]
                  tr2 == Append(tr1, Ev("llm_report", rp.ok, <<>>, "")) IN
              IF rp.ok
              THEN PipeResult("eda", "report", rp.resp, tr2, "", <<>>)
              ELSE pipeline_except(attempt, generated_sql, TYPE_ERROR, tr2, o)

pipeline_except_NoCeiling(attempt, generated_sql, e, tr, o) ==
    IF attempt < MAX_ATTEMPTS
    THEN LET tr1 == Append(tr, Ev("llm_corrector", o.corr.ok, generated_sql, e)) IN
         IF ~o.corr.ok
         THEN PipeResult("eda", "raised", <<>>, tr1, "", <<>>)
         ELSE pipeline_attempt(attempt + 1,
                  get_sql_from_ai_response(o.corr.resp), tr1, o)
    ELSE PipeResult("eda", "stopped", <<>>, tr, e, generated_sql)

pipeline_except_FirstSql(attempt, generated_sql, e, tr, o) ==
    IF attempt < MAX_ATTEMPTS - 1
    THEN LET tr1 == Append(tr, Ev("llm_corrector", o.corr.ok, generated_sql, e)) IN
         IF ~o.corr.ok
         THEN PipeResult("eda", "raised", <<>>, tr1, "", <<>>)
         ELSE pipeline_attempt(attempt + 1,
                  get_sql_from_ai_response(o.corr.resp), tr1, o)
    ELSE PipeResult("eda", "stopped", <<>>, tr, e, tr[2].sql)

\* the except block without st.stop(): the loop ends and None is returned
pipeline_except_NoStop(attempt, generated_sql, e, tr, o) ==
    IF attempt < MAX_ATTEMPTS - 1
    THEN LET tr1 == Append(tr, Ev("llm_corrector", o.corr.ok, generated_sql, e)) IN
         IF ~o.corr.ok
         THEN PipeResult("eda", "raised", <<>>, tr1, "", <<>>)
         ELSE pipeline_attempt(attempt + 1,
                  get_sql_from_ai_response(o.corr.resp), tr1, o)
    ELSE PipeResult("eda", "none", <<>>, tr, e, generated_sql)

\* "except Exception as e:"
pipeline_except(attempt, generated_sql, e, tr, o) ==
    IF attempt < MAX_ATTEMPTS - 1
    THEN LET tr1 == Append(tr, Ev("llm_corrector", o.corr.ok, generated_sql, e)) IN
         IF ~o.corr.ok
         THEN PipeResult("eda", "raised", <<>>, tr1, "", <<>>)
         ELSE pipeline_attempt(attempt + 1,
                  get_sql_from_ai_response(o.corr.resp), tr1, o)
    ELSE PipeResult("eda", "stopped", <<>>, tr, e, generated_sql)

run_analysis_pipeline_IgnoreGenFailure(o) ==
    LET tr == <<Ev("llm_generate", o.gen.ok, <<>>, "")>> IN
    IF ~o.gen.ok
    THEN pipeline_attempt(0, <<>>, tr, o)
    ELSE pipeline_attempt(0, get_sql_from_ai_response(o.gen.resp), tr, o)

run_analysis_pipeline(o) ==
    LET tr == <<Ev("llm_generate", o.gen.ok, <<>>, "")>> IN
    IF ~o.gen.ok
    THEN PipeResult("eda", "raised", <<>>, tr, "", <<>>)
    ELSE pipeline_attempt(0, get_sql_from_ai_response(o.gen.resp), tr, o)

\* ---------------------------------------------------------------- 2_AI_DB_Analyst
DbaResult(outcome, report, trace, err, sql) ==
    PipeResult("db_analyst", outcome, report, trace, err, sql)

\* the final report block after the loop: get_ai_response + st.write_stream
dba_report(attempt, tr, o) ==
    LET rp == o.rep[attempt + 1]
        tr1 == Append(tr, Ev("llm_report", rp.ok, <<>>, "")) IN
    IF rp.ok THEN DbaResult("report", rp.resp, tr1, "", <<>>)
    ELSE DbaResult("raised", <<>>, tr1, "", <<>>)

RECURSIVE dba_attempt(_, _, _, _)
dba_attempt(attempt, generated_sql, tr, o) ==
    IF attempt >= MAX_ATTEMPTS
    THEN dba_report(MAX_ATTEMPTS - 1, tr, o)
    ELSE LET ex == o.exec[attempt + 1]
             tr1 == Append(tr, Ev("exec", ex = EXEC_OK, generated_sql, ex)) IN
         IF ex = EXEC_OK
         THEN dba_report(attempt, tr1, o)
         ELSE IF attempt < MAX_ATTEMPTS - 1
         THEN LET tr2 == Append(tr1, Ev("llm_corrector", o.corr.ok, generated_sql, ex)) IN
              IF ~o.corr.ok
              THEN DbaResult("raised", <<>>, tr2, "", <<>>)
              ELSE dba_attempt(attempt + 1,
                       get_sql_from_ai_response(o.corr.resp), tr2, o)
         ELSE DbaResult("stopped", <<>>, tr1, ex, generated_sql)

db_analyst_run(o) ==
    LET tr == <<Ev("llm_generate", o.gen.ok, <<>>, "")>> IN
    IF ~o.gen.ok
    THEN DbaResult("raised", <<>>, tr, "", <<>>)
    ELSE dba_attempt(0, get_sql_from_ai_response(o.gen.resp), tr, o)

\* every run the pages can make, over all answers of the LLM and the database
EdaRuns == {run_analysis_pipeline(o) : o \in Oracles}
DbaRuns == {db_analyst_run(o) : o \in Oracles}

\* ---------------------------------------------------------------- session
\* The session during one script run, as a record: st.session_state
\* (threads, pytype, view, sel), the history file, the uuid source, and what
\* the run did (ops: the thread-store calls, pipe: the pipeline run, exc: an
\* uncaught exception).
None == 0

Msg(role, content) == [role |-> role, content |-> content]

\* the prompt given to the first LLM call of a pipeline run
NoPrompt == [template |-> "", history |-> <<>>, question |-> <<>>]

Session ==
    [threads |-> analysis_threads, pytype |-> threads_pytype, disk |-> disk,
     view |-> current_view, sel |-> selected_thread_id, uuid |-> next_uuid,
     wfail |-> write_budget, ops |-> <<>>, pipe |-> NoRun, exc |-> "",
     arg |-> None, prompt |-> NoPrompt]

\* save_threads_to_disk without its except branch
Saved_Raises(s, w) ==
    [s EXCEPT !.disk = save_threads_to_disk(s.threads, s.disk, w),
              !.wfail = IF w = "ok" THEN @ ELSE @ - 1,
              !.exc = IF w = "ok" THEN @ ELSE "IOError"]

\* save_threads_to_disk from inside a store operation; the except branch
\* reports the IOError with st.error and returns
Saved(s, w) ==
    [s EXCEPT !.disk = save_threads_to_disk(s.threads, s.disk, w),
              !.wfail = IF w = "ok" THEN @ ELSE @ - 1,
              !.ops = IF w = "ok" THEN @ ELSE Append(@, "save_error")]

HasThread(ts, id) == \E i \in 1..Len(ts) : ts[i].id = id
IndexOf(ts, id) == CHOOSE i \in 1..Len(ts) : ts[i].id = id /\ \A j \in 1..(i-1) : ts[j].id # id
get_one_thread(ts, id) == ts[IndexOf(ts, id)]

create_new_thread_AtEnd(s, question, report, w) ==
    Saved([s EXCEPT !.threads = Append(@, [id |-> s.uuid, title |-> truncate_text(question),
                                     messages |-> <<Msg("user", question), Msg("assistant", report)>>]),
                    !.uuid = @ + 1,
                    !.ops = Append(@, "create_thread")], w)

create_new_thread(s, question, report, w) ==
    IF s.pytype # "list"
    THEN [s EXCEPT !.exc = "AttributeError"]
    ELSE LET new_thread ==
                 [id |-> s.uuid, title |-> truncate_text(question),
                  messages |-> <<Msg("user", question), Msg("assistant", report)>>] IN
         Saved([s EXCEPT !.threads = <<new_thread>> \o @,
                         !.uuid = @ + 1,
                         !.ops = Append(@, "create_thread")], w)

\* add_message_to_thread with the save moved out of the if
add_message_to_thread_SaveAlways(s, thread_id, role, content, w) ==
    IF HasThread(s.threads, thread_id)
    THEN LET i == IndexOf(s.threads, thread_id) IN
         Saved([s EXCEPT !.threads[i].messages = Append(@, Msg(role, content)),
                         !.arg = thread_id,
                         !.ops = Append(@, IF role = "user" THEN "append_user"
                                                ELSE "append_assistant")], w)
    ELSE Saved([s EXCEPT !.arg = thread_id], w)

add_message_to_thread(s, thread_id, role, content, w) ==
    IF HasThread(s.threads, thread_id)
    THEN LET i == IndexOf(s.threads, thread_id) IN
         Saved([s EXCEPT !.threads[i].messages = Append(@, Msg(role, content)),
                         !.arg = thread_id,
                         !.ops = Append(@, IF role = "user" THEN "append_user"
                                                ELSE "append_assistant")], w)
    ELSE [s EXCEPT !.arg = thread_id]

RECURSIVE Without(_, _)
Without(ts, id) ==
    IF ts = <<>> THEN <<>>
    ELSE IF Head(ts).id = id THEN Without(Tail(ts), id)
    ELSE <<Head(ts)>> \o Without(Tail(ts), id)

delete_thread_AlwaysReset(s, thread_id, w) ==
    LET s1 == Saved([s EXCEPT !.threads = Without(@, thread_id),
                              !.pytype = "list", !.arg = thread_id,
                              !.ops = Append(@, "delete_thread")], w) IN
    [s1 EXCEPT !.view = "new_analysis", !.sel = None]

delete_thread(s, thread_id, w) ==
    LET s1 == Saved([s EXCEPT !.threads = Without(@, thread_id),
                              !.pytype = "list", !.arg = thread_id,
                              !.ops = Append(@, "delete_thread")], w) IN
    IF s1.sel = thread_id
    THEN [s1 EXCEPT !.view = "new_analysis", !.sel = None]
    ELSE s1

clear_all_threads(s, w) ==
    Saved([s EXCEPT !.threads = <<>>, !.pytype = "list",
                    !.ops = Append(@, "clear_all")], w)

go_to_new_analysis(s) == [s EXCEPT !.view = "new_analysis", !.sel = None]

\* set_current_thread without the assignment of selected_thread_id
set_current_thread_ViewOnly(s, thread_id) ==
    [s EXCEPT !.view = "view_thread", !.arg = thread_id]

set_current_thread(s, thread_id) ==
    [s EXCEPT !.view = "view_thread", !.sel = thread_id, !.arg = thread_id]

\* "User", "Assistant", ":" and the line feed, as character codes
LABEL_USER == <<85, 115, 101, 114>>
LABEL_ASSISTANT == <<65, 115, 115, 105, 115, 116, 97, 110, 116>>
COLON == 58
LF == 10

\* one element of the history list: f"{role}:\n{msg['content']}"
format_message(msg) ==
    (IF msg.role = "user" THEN LABEL_USER ELSE LABEL_ASSISTANT)
        \o <<COLON, LF>> \o msg.content

\* "\n\n".join(history)
RECURSIVE format_conversation_history(_)
format_conversation_history(messages) ==
    IF messages = <<>> THEN <<>>
    ELSE IF Len(messages) = 1 THEN format_message(messages[1])
    ELSE format_message(messages[1]) \o <<LF, LF>>
             \o format_conversation_history(Tail(messages))

\* prompts/follow_up.txt filled with the whole thread as history
follow_up_prompt_WithQuestion(messages) ==
    [template |-> "follow_up",
     history |-> format_conversation_history(messages),
     question |-> messages[Len(messages)].content]

\* prompts/follow_up.txt filled with the history and the last user message
follow_up_prompt(messages) ==
    [template |-> "follow_up",
     history |-> format_conversation_history(SubSeq(messages, 1, Len(messages) - 1)),
     question |-> messages[Len(messages)].content]

\* prompts/db_analyst.txt filled with the question
db_analyst_prompt(user_question) ==
    [template |-> "db_analyst", history |-> <<>>, question |-> user_question]

\* the view_thread branch of the main view without a submitted chat input:
\* answers a trailing user message
view_thread_render(s, r, w) ==
    IF HasThread(s.threads, s.sel)
    THEN LET thread == get_one_thread(s.threads, s.sel) IN
         IF thread.messages # <<>>
            /\ thread.messages[Len(thread.messages)].role = "user"
         THEN LET s1 == [s EXCEPT !.pipe = r,
                                 !.prompt = follow_up_prompt(thread.messages),
                                 !.exc = IF r.outcome = "raised" THEN TYPE_ERROR ELSE ""] IN
              IF r.outcome = "report" /\ r.report # <<>>
              THEN add_message_to_thread(s1, thread.id, "assistant", r.report, w)
              ELSE s1
         ELSE s
    ELSE go_to_new_analysis(s)

\* the main view of a script run in which no form was submitted
main_view(s, r, w) ==
    IF s.view = "view_thread" /\ s.sel # None
    THEN view_thread_render(s, r, w)
    ELSE s

\* new_analysis branch with the run_analysis button pressed and a question;
\* the rerun after create_new_thread shows a thread that ends with the
\* assistant message, so it runs no pipeline
new_analysis_submit(s, user_question, r, w) ==
    LET s1 == [s EXCEPT !.pipe = r,
                        !.prompt = db_analyst_prompt(user_question),
                        !.exc = IF r.outcome = "raised" THEN TYPE_ERROR ELSE ""] IN
    IF r.outcome = "report" /\ r.report # <<>>
    THEN LET s2 == create_new_thread(s1, user_question, r.report, w) IN
         IF s2.exc # "" THEN s2
         ELSE [s2 EXCEPT !.sel = s1.uuid, !.view = "view_thread"]
    ELSE s1

\* view_thread branch with a chat input submitted: append, rerun, answer
follow_up_submit(s, follow_up_question, r, w1, w2) ==
    main_view(add_message_to_thread(s, s.sel, "user", follow_up_question, w1), r, w2)

\* ---------------------------------------------------------------- Init
T0 == [id |-> 1, title |-> Q_SHORT,
       messages |-> <<Msg("user", Q_SHORT), Msg("assistant", R_TEXT)>>]

\* the history file found by the first script run: absent, written by an
\* earlier session, cut short by a failed write, or damaged from outside
InitDisks ==
    {NoFile,
     File(json_dump(<<>>)),
     File(json_dump(<<T0>>)),
     File(<<>>),
     File(<<P("["), P("{")>>),
     File(<<P("null")>>),
     File(<<P("{"), P("}")>>),
     File(<<P("xff")>>)}

FIRST_NEW_UUID == T0.id + 1

Audit(act, s) ==
    [act |-> act, pipe |-> s.pipe, ops |-> s.ops, exc |-> s.exc,
     arg |-> s.arg, prompt |-> s.prompt]

\* no function called directly; no schema context built yet
NoCall == [fn |-> "", arg |-> <<>>, done |-> FALSE, result |-> <<>>]
\* a built context: the schema it was built from, whether a DDL fetch
\* failed while it was built, and the time it was built at
Context(schema, partial, built_at) ==
    [set |-> TRUE, schema |-> schema, partial |-> partial, built_at |-> built_at]
NoEntry == [set |-> FALSE, schema |-> 0, partial |-> FALSE, built_at |-> 0]

\* the process at its start: the clock, the schema of the database, the
\* st.cache_data entry of each page's get_database_context, the
\* st.cache_resource entry of get_db_context_cached, the db_context of the
\* session on the DB Analyst page, and the context given to the last run
NoCache ==
    [now |-> 0, schema |-> 1,
     eda_data |-> NoEntry, eda_resource |-> NoEntry,
     dba_data |-> NoEntry, dba_session |-> NoEntry,
     used |-> NoEntry, used_at |-> 0]

\* the st.session_state of a second browser session of the same process,
\* which is not running a script now; NoSession before its first script run
SessionState(threads, pytype, view, sel) ==
    [started |-> TRUE, threads |-> threads, pytype |-> pytype,
     view |-> view, sel |-> sel]
NoSession ==
    [started |-> FALSE, threads |-> <<>>, pytype |-> "unset",
     view |-> "new_analysis", sel |-> None]

InitSession ==
    /\ disk \in InitDisks
    /\ analysis_threads = load_threads_from_disk(disk).value
    /\ threads_pytype = load_threads_from_disk(disk).pytype
    /\ current_view = "new_analysis"
    /\ selected_thread_id = None
    /\ next_uuid = FIRST_NEW_UUID
    /\ last = [act |-> "init", pipe |-> NoRun, ops |-> <<>>, exc |-> "",
               arg |-> None, prompt |-> NoPrompt]
    /\ call = NoCall
    /\ cache = NoCache
    /\ other_session = NoSession

\* every write to the history file succeeds
Init == InitSession /\ write_budget = 0

\* up to MaxWriteFailures writes to the history file fail
InitFaults == InitSession /\ write_budget = MaxWriteFailures

\* ---------------------------------------------------------------- actions
Commit(act, s) ==
    /\ disk' = s.disk
    /\ analysis_threads' = s.threads
    /\ threads_pytype' = s.pytype
    /\ current_view' = s.view
    /\ selected_thread_id' = s.sel
    /\ next_uuid' = s.uuid
    /\ write_budget' = s.wfail
    /\ last' = Audit(act, s)
    /\ UNCHANGED <<call, cache, other_session>>

\* write_budget is the number of writes that may still fail
Writes(n) == IF n > 0 THEN WriteOutcomes ELSE {"ok"}

\* the sidebar raises before the main view when the stored value is not
\* iterable or could not be loaded
PageRenders == threads_pytype \in {"list", "dict"}

\* the main view runs the pipeline only for a shown thread that ends with a
\* user message, and saves only when the run returns a non-empty report: the
\* runs and write outcomes that cannot matter are not enumerated
AwaitsAnswer(s) ==
    /\ s.view = "view_thread" /\ s.sel # None
    /\ HasThread(s.threads, s.sel)
    /\ LET m == get_one_thread(s.threads, s.sel).messages IN
       m # <<>> /\ m[Len(m)].role = "user"

RunsFor(s) == IF AwaitsAnswer(s) THEN EdaRuns ELSE {NoRun}
WritesFor(s, r) ==
    IF r.outcome = "report" /\ r.report # <<>> THEN Writes(s.wfail) ELSE {"ok"}

RECURSIVE TotalMessages(_)
TotalMessages(ts) ==
    IF ts = <<>> THEN 0 ELSE Len(Head(ts).messages) + TotalMessages(Tail(ts))

SubmitNewAnalysis ==
    /\ PageRenders
    /\ current_view = "new_analysis"
    /\ next_uuid < FIRST_NEW_UUID + MaxThreadsCreated
    /\ \E q \in NewQuestions, r \in EdaRuns :
         \E w \in WritesFor(Session, r) :
            Commit("submit_new", new_analysis_submit(Session, q, r, w))

SubmitFollowUp ==
    /\ PageRenders
    /\ current_view = "view_thread" /\ selected_thread_id # None
    /\ HasThread(analysis_threads, selected_thread_id)
    /\ TotalMessages(analysis_threads) < MaxMessages
    /\ \E q \in FollowUpQuestions, r \in EdaRuns, w1 \in Writes(write_budget) :
         LET s1 == add_message_to_thread(Session, selected_thread_id, "user", q, w1) IN
         \E w2 \in WritesFor(s1, r) :
            Commit("follow_up", follow_up_submit(Session, q, r, w1, w2))

SelectThread ==
    /\ PageRenders
    /\ \E i \in 1..Len(analysis_threads) :
         LET s1 == set_current_thread(Session, analysis_threads[i].id) IN
         \E r \in RunsFor(s1) : \E w \in WritesFor(s1, r) :
            Commit("select_thread", main_view(s1, r, w))

DeleteThread ==
    /\ PageRenders
    /\ \E i \in 1..Len(analysis_threads), w1 \in Writes(write_budget) :
         LET s1 == delete_thread(Session, analysis_threads[i].id, w1) IN
         \E r \in RunsFor(s1) : \E w2 \in WritesFor(s1, r) :
            Commit("delete_thread", main_view(s1, r, w2))

ClearAll ==
    /\ PageRenders
    /\ analysis_threads # <<>>
    /\ \E w \in Writes(write_budget) :
          Commit("clear_all", go_to_new_analysis(clear_all_threads(Session, w)))

GoToNewAnalysis ==
    Commit("new_analysis", go_to_new_analysis(Session))

\* a new session (a restart): session_state is empty and the first script
\* run loads the history file
Restart ==
    LET r == load_threads_from_disk(disk) IN
    Commit("restart",
           [Session EXCEPT !.threads = r.value, !.pytype = r.pytype,
                           !.view = "new_analysis", !.sel = None,
                           !.exc = IF r.raised THEN "UnicodeDecodeError" ELSE ""])

\* the run_analysis button of the 2_AI_DB_Analyst page
DbAnalystRun ==
    \E r \in DbaRuns :
        Commit("db_analyst",
               [Session EXCEPT !.pipe = r,
                               !.exc = IF r.outcome = "raised" THEN TYPE_ERROR ELSE ""])

Next ==
    \/ SubmitNewAnalysis
    \/ SubmitFollowUp
    \/ SelectThread
    \/ DeleteThread
    \/ ClearAll
    \/ GoToNewAnalysis
    \/ Restart
    \/ DbAnalystRun

Spec == Init /\ [][Next]_vars

\* the thread store called directly, with any thread id: ids of threads in
\* the collection and ids of none
ThreadIds == 1..(FIRST_NEW_UUID + MaxThreadsCreated)

StoreCreate ==
    /\ PageRenders
    /\ next_uuid < FIRST_NEW_UUID + MaxThreadsCreated
    /\ \E q \in NewQuestions :
          Commit("store_create", create_new_thread(Session, q, R_TEXT, "ok"))

StoreAppend ==
    /\ PageRenders
    /\ TotalMessages(analysis_threads) < MaxMessages
    /\ \E id \in ThreadIds, role \in Roles :
          Commit("store_append",
                 add_message_to_thread(Session, id, role,
                                       IF role = "user" THEN Q_FOLLOW ELSE R_TEXT, "ok"))

StoreDelete ==
    /\ PageRenders
    /\ \E id \in ThreadIds : Commit("store_delete", delete_thread(Session, id, "ok"))

StoreClear ==
    /\ PageRenders
    /\ Commit("store_clear", clear_all_threads(Session, "ok"))

NextStore ==
    \/ StoreCreate
    \/ StoreAppend
    \/ StoreDelete
    \/ StoreClear

SpecStore == Init /\ [][NextStore]_vars

SpecFaults == InitFaults /\ [][Next]_vars

\* ---------------------------------------------------------------- two sessions
\* The user turns to the other browser session: its session_state becomes
\* the one the handlers act on.  The first script run of a session loads the
\* collection from the history file (get_analysis_threads); afterwards the
\* session keeps its own collection.  The file is shared, without a lock.
SwitchSession ==
    LET loaded == load_threads_from_disk(disk)
        incoming ==
            IF other_session.started THEN other_session
            ELSE SessionState(loaded.value, loaded.pytype, "new_analysis", None) IN
    /\ other_session' = SessionState(analysis_threads, threads_pytype,
                             current_view, selected_thread_id)
    /\ analysis_threads' = incoming.threads
    /\ threads_pytype' = incoming.pytype
    /\ current_view' = incoming.view
    /\ selected_thread_id' = incoming.sel
    /\ last' = Audit("switch_session",
                     [Session EXCEPT !.exc = IF ~other_session.started /\ loaded.raised
                                             THEN "UnicodeDecodeError" ELSE ""])
    /\ UNCHANGED <<disk, next_uuid, write_budget, call, cache>>

\* the handlers of the 2_AI_EDA page that write the history file, and the
\* selection that a follow-up needs, in either session
NextSessions ==
    \/ SubmitNewAnalysis
    \/ SubmitFollowUp
    \/ SelectThread
    \/ DeleteThread
    \/ ClearAll
    \/ SwitchSession

SpecSessions == Init /\ [][NextSessions]_vars

\* ---------------------------------------------------------------- helper calls
\* The helper functions of the pages called on their own, on every input of
\* a bounded set.
Segments == {FENCE_OPEN, FENCE_CLOSE, <<FENCE>>, <<NEWLINE>>, <<WS>>, <<"S1">>}

RECURSIVE Responses(_)
Responses(n) ==
    IF n = 0 THEN {<<>>}
    ELSE LET shorter == Responses(n - 1) IN
         shorter \cup {r \o seg : r \in shorter, seg \in Segments}

\* a question of n characters, all the same or all different from their
\* neighbours
Question(n, k) == [i \in 1..n |-> 65 + ((i * k) % 26)]
Questions == {Question(n, k) : n \in 0..MaxQuestionLen, k \in {0, 1}}

\* the tables SHOW TABLES lists, the ones whose SHOW CREATE TABLE fails,
\* and the files under queries/
Databases ==
    UNION {[table_names : {[i \in 1..n |-> i]},
            failing : SUBSET (1..n),
            query_files : {<<>>, <<1>>}] : n \in 0..MaxTables}

Call(fn, arg) == [fn |-> fn, arg |-> arg, done |-> FALSE, result |-> <<>>]

InitFunctions ==
    /\ disk = NoFile
    /\ analysis_threads = <<>>
    /\ threads_pytype = "list"
    /\ current_view = "new_analysis"
    /\ selected_thread_id = None
    /\ next_uuid = FIRST_NEW_UUID
    /\ write_budget = 0
    /\ last = [act |-> "init", pipe |-> NoRun, ops |-> <<>>, exc |-> "",
               arg |-> None, prompt |-> NoPrompt]
    /\ cache = NoCache
    /\ other_session = NoSession
    /\ \/ \E r \in Responses(MaxSegments) : call = Call("get_sql_from_ai_response", r)
       \/ \E q \in Questions : call = Call("create_new_thread", q)
       \/ \E db \in Databases : call = Call("get_database_context", db)
       \/ \E db \in Databases : call = Call("dba_get_database_context", db)

Return(value) ==
    /\ ~call.done
    /\ call' = [call EXCEPT !.done = TRUE, !.result = value]

ExtractSql ==
    /\ call.fn = "get_sql_from_ai_response"
    /\ Return(get_sql_from_ai_response(call.arg))
    /\ UNCHANGED <<disk, analysis_threads, threads_pytype, current_view,
                   selected_thread_id, next_uuid, write_budget, last, cache, other_session>>

\* create_new_thread(question, report): the call returns the new id and the
\* title is read from the stored thread
CreateThread ==
    /\ call.fn = "create_new_thread"
    /\ LET s == create_new_thread(Session, call.arg, R_TEXT, "ok") IN
       /\ Return(get_one_thread(s.threads, next_uuid).title)
       /\ disk' = s.disk
       /\ analysis_threads' = s.threads
       /\ next_uuid' = s.uuid
       /\ last' = Audit("store_create", s)
    /\ UNCHANGED <<threads_pytype, current_view, selected_thread_id,
                   write_budget, cache, other_session>>

BuildContext ==
    /\ call.fn = "get_database_context"
    /\ Return(get_database_context(call.arg.table_names, call.arg.failing,
                                    call.arg.query_files))
    /\ UNCHANGED <<disk, analysis_threads, threads_pytype, current_view,
                   selected_thread_id, next_uuid, write_budget, last, cache, other_session>>

DbaBuildContext ==
    /\ call.fn = "dba_get_database_context"
    /\ Return(dba_get_database_context(call.arg.table_names, call.arg.failing,
                                        call.arg.query_files))
    /\ UNCHANGED <<disk, analysis_threads, threads_pytype, current_view,
                   selected_thread_id, next_uuid, write_budget, last, cache, other_session>>

NextFunctions ==
    \/ ExtractSql
    \/ CreateThread
    \/ BuildContext
    \/ DbaBuildContext

SpecFunctions == InitFunctions /\ [][NextFunctions]_vars

\* ---------------------------------------------------------------- context caches
\* ttl="1h" in ticks of half an hour
CACHE_TTL == 2

\* @st.cache_data(ttl="1h"): an entry older than the ttl is not served
Fresh(entry, now) == entry.set /\ now - entry.built_at < CACHE_TTL

\* get_database_context behind st.cache_data: the entry when fresh, else a
\* context built now
cached_get_database_context(entry, schema, partial, now) ==
    IF Fresh(entry, now) THEN entry ELSE Context(schema, partial, now)

\* get_db_context_cached: st.cache_resource without ttl keeps its entry
get_db_context_cached(c, partial) ==
    IF c.eda_resource.set THEN c
    ELSE LET ctx == cached_get_database_context(c.eda_data, c.schema, partial, c.now) IN
         [c EXCEPT !.eda_data = ctx, !.eda_resource = ctx]

\* 2_AI_DB_Analyst: db_context is built when the session has none
dba_db_context(c, partial) ==
    IF c.dba_session.set THEN c
    ELSE LET ctx == cached_get_database_context(c.dba_data, c.schema, partial, c.now) IN
         [c EXCEPT !.dba_data = ctx, !.dba_session = ctx]

CacheStep(c) ==
    /\ cache' = c
    /\ UNCHANGED <<disk, analysis_threads, threads_pytype, current_view,
                   selected_thread_id, next_uuid, write_budget, last, call, other_session>>

Tick ==
    /\ cache.now < MaxClock
    /\ CacheStep([cache EXCEPT !.now = @ + 1])

AlterSchema ==
    /\ cache.schema < MaxSchema
    /\ CacheStep([cache EXCEPT !.schema = @ + 1])

\* a script run of 2_AI_EDA that runs the pipeline with db_context
EdaPipelineRun ==
    \E partial \in BOOLEAN :
        LET c == get_db_context_cached(cache, partial) IN
        CacheStep([c EXCEPT !.used = c.eda_resource, !.used_at = c.now])

\* a script run of 2_AI_DB_Analyst that runs the pipeline with db_context
DbaPipelineRun ==
    \E partial \in BOOLEAN :
        LET c == dba_db_context(cache, partial) IN
        CacheStep([c EXCEPT !.used = c.dba_session, !.used_at = c.now])

\* a new browser session: st.session_state is empty, the caches of the
\* process stay
NewSession == CacheStep([cache EXCEPT !.dba_session = NoEntry])

NextCache ==
    \/ Tick
    \/ AlterSchema
    \/ EdaPipelineRun
    \/ DbaPipelineRun
    \/ NewSession

\* one session on an absent history file, the process just started
InitCache == Init /\ disk = NoFile

SpecCache == InitCache /\ [][NextCache]_vars

\* ---------------------------------------------------------------- properties
Trace == last.pipe.trace
Count(tr, ops) == Cardinality({i \in 1..Len(tr) : tr[i].op \in ops})
SqlLlmOps == {"llm_generate", "llm_corrector"}
LastExec(tr) == CHOOSE i \in 1..Len(tr) : tr[i].op = "exec" /\ \A j \in (i+1)..Len(tr) : tr[j].op # "exec"

\* C1: retry ceiling.  A pipeline run of either page calls the LLM for SQL at
\* most twice (one generation, at most one correction) and executes SQL at
\* most twice; when the second execution fails the run is stopped with the
\* failure shown and nothing is attempted after that execution.
C1_RetryCeiling ==
    /\ Count(Trace, {"llm_generate"}) <= 1
    /\ Count(Trace, {"llm_corrector"}) <= 1
    /\ Count(Trace, SqlLlmOps) <= 2
    /\ Count(Trace, {"exec"}) <= 2
    /\ (Count(Trace, {"exec"}) = 2 /\ ~Trace[LastExec(Trace)].ok) =>
           /\ last.pipe.outcome = "stopped"
           /\ LastExec(Trace) = Len(Trace)

C1_Witness ==
    /\ last.pipe.page = "eda"
    /\ last.pipe.outcome = "stopped"
    /\ Count(Trace, {"exec"}) = 2
    /\ \A i \in 1..Len(Trace) : Trace[i].op = "exec" => ~Trace[i].ok

\* C2: report synthesis is never retried.  A run calls the report LLM at most
\* once, and a failed report call ends the run: it is the last step, so no
\* corrector prompt is built and no SQL is generated or executed after it.
C2_ReportNeverRetried ==
    /\ Count(Trace, {"llm_report"}) <= 1
    /\ \A i \in 1..Len(Trace) :
          (Trace[i].op = "llm_report" /\ ~Trace[i].ok) =>
              i = Len(Trace) /\ last.pipe.outcome \in {"raised", "stopped"}

\* the error raised in an attempt of the run: the database error of its
\* execution, or the TypeError of a failed report call after it
AttemptError(tr, k) ==
    IF ~tr[k].ok THEN tr[k].err ELSE TYPE_ERROR

\* C3: when the retry budget is exhausted the failure shown carries the SQL
\* executed in the second attempt and the error of that attempt, and no
\* report is returned or stored.
C3_LastSqlAndError ==
    last.pipe.outcome = "stopped" =>
        /\ Count(Trace, {"exec"}) = 2
        /\ last.pipe.shown_sql = Trace[LastExec(Trace)].sql
        /\ last.pipe.shown_error = AttemptError(Trace, LastExec(Trace))
        /\ last.pipe.report = <<>>
        /\ \A i \in 1..Len(last.ops) :
              last.ops[i] \notin {"create_thread", "append_assistant"}

C3_Witness ==
    /\ last.pipe.page = "eda"
    /\ last.pipe.outcome = "stopped"
    /\ last.pipe.shown_error = "E2"
    /\ last.pipe.shown_sql = <<"S2">>
    /\ Trace[2].sql = <<"S1">> /\ Trace[2].err = "E1"

\* C4: a failed LLM call for SQL generation or correction ends the run: it is
\* the last step (no SQL is executed after it), no report is returned, and
\* the handler calls neither create_thread nor append_message(assistant).
C4_GenerationFailureFatal ==
    \A i \in 1..Len(Trace) :
        (Trace[i].op \in SqlLlmOps /\ ~Trace[i].ok) =>
            /\ i = Len(Trace)
            /\ last.pipe.outcome = "raised"
            /\ last.pipe.report = <<>>
            /\ \A k \in 1..Len(last.ops) :
                  last.ops[k] \notin {"create_thread", "append_assistant"}

C4_Witness ==
    /\ last.act = "follow_up"
    /\ Len(Trace) = 3
    /\ Trace[3].op = "llm_corrector" /\ ~Trace[3].ok
    /\ last.ops = <<"append_user">>

Ids(ts) == [i \in 1..Len(ts) |-> ts[i].id]
Reloaded == load_threads_from_disk(disk)

\* C5: durability at operation boundaries.  While every write succeeds, the
\* history file read back (as a restart does) gives the in-memory collection:
\* the same threads in the same order with the same id, title and messages.
C5_Durability ==
    threads_pytype = "list" =>
        Reloaded = [raised |-> FALSE, pytype |-> "list", value |-> analysis_threads]

C5_Witness ==
    /\ last.act = "follow_up"
    /\ Len(analysis_threads) = 2
    /\ \E i \in 1..2 : Len(analysis_threads[i].messages) >= 4
    /\ Reloaded.value = analysis_threads

\* a thread created later has the larger uuid in this model
RecentFirst(ts) == \A i, j \in 1..Len(ts) : i < j => ts[i].id > ts[j].id

C7_RoleAlternation ==
    \A i \in 1..Len(analysis_threads) :
        \A k \in 1..Len(analysis_threads[i].messages) :
            analysis_threads[i].messages[k].role =
                IF k % 2 = 1 THEN "user" ELSE "assistant"

\* C8: new-analysis transition.  A submitted question whose pipeline run
\* returns a report creates exactly one thread [user: question, assistant:
\* report] in front of the others and shows it; a run that fails leaves the
\* collection, the file and the new_analysis view unchanged.
C8_NewAnalysisTransition ==
    [][last'.act = "submit_new" =>
          IF last'.pipe.outcome = "report"
          THEN /\ Len(analysis_threads') = Len(analysis_threads) + 1
               /\ Tail(analysis_threads') = analysis_threads
               /\ \E q \in NewQuestions :
                     analysis_threads'[1].messages =
                         <<Msg("user", q), Msg("assistant", last'.pipe.report)>>
               /\ current_view' = "view_thread"
               /\ selected_thread_id' = analysis_threads'[1].id
          ELSE /\ analysis_threads' = analysis_threads
               /\ disk' = disk
               /\ current_view' = "new_analysis"]_vars

\* C9: delete and selection.  Deleting a thread removes that thread and no
\* other and writes the remaining collection to the file; when it was the
\* thread shown the view becomes new_analysis with no thread selected,
\* otherwise the view and the selected id stay as they were.
C9_DeleteAndSelection ==
    [][last'.act = "delete_thread" =>
          \E i \in 1..Len(analysis_threads) :
             LET id == analysis_threads[i].id IN
             /\ Ids(analysis_threads') = Ids(Without(analysis_threads, id))
             /\ Len(analysis_threads') = Len(analysis_threads) - 1
             /\ ~HasThread(analysis_threads', id)
             /\ disk' = File(json_dump(analysis_threads'))
             /\ IF selected_thread_id = id
                THEN current_view' = "new_analysis" /\ selected_thread_id' = None
                ELSE /\ current_view' = current_view
                     /\ selected_thread_id' = selected_thread_id]_vars

C9_Witness ==
    /\ last.act = "delete_thread"
    /\ current_view = "view_thread"
    /\ Len(analysis_threads) = 1
    /\ selected_thread_id = analysis_threads[1].id

WellFormedList(d) ==
    d.exists /\ json_load(d.text).exc = "" /\ json_load(d.text).pytype = "list"

\* C10: corrupt-store recovery.  Loading the history file never raises; a
\* missing file gives an empty list, and so does a file that is not the text
\* of a list of thread records (invalid JSON, undecodable bytes, or JSON of
\* another shape).
C10_LoadNeverRaises ==
    /\ ~Reloaded.raised
    /\ ~WellFormedList(disk) => Reloaded.pytype = "list" /\ Reloaded.value = <<>>

Has(ops, op) == \E k \in 1..Len(ops) : ops[k] = op
IsPrefix(a, b) == Len(a) <= Len(b) /\ SubSeq(b, 1, Len(a)) = a

\* a step in which a write of the history file failed
FailedWriteStep == write_budget' < write_budget

\* C11: a write failure is not fatal.  When a write of the history file fails
\* inside create, append, delete or clear-all, the failure is reported, no
\* exception of the write leaves the store operation and the handler goes on
\* (the new thread is shown, the view is reset), and the in-memory collection
\* holds the result of the mutation whatever the file holds; an operation
\* that makes no store call leaves the in-memory collection as it was, also
\* when the file holds something else.
C11_WriteFailureNonFatal ==
    [][/\ FailedWriteStep =>
            /\ Has(last'.ops, "save_error")
            /\ last'.exc = (IF last'.pipe.outcome = "raised" THEN TYPE_ERROR ELSE "")
            /\ threads_pytype' = "list"
            /\ last'.act \in {"submit_new", "follow_up", "select_thread",
                              "delete_thread", "clear_all"}
            /\ last'.act = "clear_all" =>
                   analysis_threads' = <<>> /\ current_view' = "new_analysis"
            /\ (last'.act = "delete_thread" /\ ~Has(last'.ops, "append_assistant")) =>
                   \E i \in 1..Len(analysis_threads) :
                      analysis_threads' =
                          Without(analysis_threads, analysis_threads[i].id)
            /\ last'.act = "submit_new" =>
                   /\ Tail(analysis_threads') = analysis_threads
                   /\ analysis_threads'[1].messages[2] =
                          Msg("assistant", last'.pipe.report)
                   /\ selected_thread_id' = analysis_threads'[1].id
                   /\ current_view' = "view_thread"
            /\ last'.act = "follow_up" =>
                   LET old == get_one_thread(analysis_threads, selected_thread_id).messages
                       new == get_one_thread(analysis_threads', selected_thread_id).messages
                   IN  /\ IsPrefix(old, new)
                       /\ Len(new) = Len(old) + (IF Has(last'.ops, "append_assistant")
                                                 THEN 2 ELSE 1)
                       /\ new[Len(old) + 1].role = "user"
            /\ last'.act = "select_thread" =>
                   LET old == get_one_thread(analysis_threads, selected_thread_id').messages
                       new == get_one_thread(analysis_threads', selected_thread_id').messages
                   IN  new = Append(old, Msg("assistant", last'.pipe.report))
       /\ (last'.ops = <<>> /\ last'.act # "restart") =>
            analysis_threads' = analysis_threads /\ disk' = disk]_vars

\* a thread created while the write failed is shown from memory and is not
\* in the file
C11_Witness ==
    /\ last.act = "submit_new"
    /\ Has(last.ops, "save_error")
    /\ current_view = "view_thread"
    /\ HasThread(analysis_threads, selected_thread_id)
    /\ ~HasThread(Reloaded.value, selected_thread_id)

\* C12: add_message_to_thread.  With an id that matches no thread the call
\* changes nothing in memory, writes nothing to the history file and raises
\* nothing; with a matching id it appends exactly one message at the end of
\* that thread, leaves every other thread and the thread's id and title as
\* they were, and writes the collection to the file.
C12_AppendMessage ==
    [][last'.act = "store_append" =>
          IF ~HasThread(analysis_threads, last'.arg)
          THEN /\ analysis_threads' = analysis_threads
               /\ disk' = disk
               /\ last'.exc = ""
          ELSE /\ Len(analysis_threads') = Len(analysis_threads)
               /\ \A i \in 1..Len(analysis_threads) :
                     IF analysis_threads[i].id = last'.arg
                     THEN /\ Len(analysis_threads'[i].messages) =
                                 Len(analysis_threads[i].messages) + 1
                          /\ IsPrefix(analysis_threads[i].messages,
                                      analysis_threads'[i].messages)
                          /\ analysis_threads'[i].id = analysis_threads[i].id
                          /\ analysis_threads'[i].title = analysis_threads[i].title
                     ELSE analysis_threads'[i] = analysis_threads[i]
               /\ disk' = File(json_dump(analysis_threads'))
               /\ last'.exc = ""]_vars

\* an append with an id of no thread, on a collection that holds threads
C12_Witness ==
    /\ last.act = "store_append"
    /\ analysis_threads # <<>>
    /\ ~HasThread(analysis_threads, last.arg)
    /\ last.ops = <<>>

\* the text of one message as the claim words it: the label, a colon, a
\* line feed, the content
Rendered(m) ==
    IF m.role = "user" THEN <<85, 115, 101, 114, 58, 10>> \o m.content
    ELSE <<65, 115, 115, 105, 115, 116, 97, 110, 116, 58, 10>> \o m.content

\* text h is the messages ms, oldest first, with one blank line between two
\* of them
RECURSIVE IsHistoryOf(_, _)
IsHistoryOf(h, ms) ==
    IF ms = <<>> THEN h = <<>>
    ELSE LET n == Len(ms)
             t == Rendered(ms[n])
             k == Len(h) - Len(t) IN
         /\ k >= 0
         /\ SubSeq(h, k + 1, Len(h)) = t
         /\ IF n = 1 THEN k = 0
            ELSE /\ k >= 2
                 /\ SubSeq(h, k - 1, k) = <<10, 10>>
                 /\ IsHistoryOf(SubSeq(h, 1, k - 2), SubSeq(ms, 1, n - 1))

\* C13: follow-up context.  A follow-up question Q submitted on a thread
\* with messages m1..mn is appended to the thread as a user message before
\* the pipeline runs, and the prompt given to the pipeline has as history
\* exactly m1..mn, oldest first, each as User: or Assistant:, a line feed and
\* the content, with a blank line between two messages, and has Q, which is
\* not in the history, as the follow-up question.
C13_FollowUpContext ==
    [][last'.act = "follow_up" =>
          LET old == get_one_thread(analysis_threads, selected_thread_id).messages
              new == get_one_thread(analysis_threads', selected_thread_id).messages
              Q == new[Len(old) + 1] IN
          /\ last'.ops[1] = "append_user"
          /\ IsPrefix(old, new) /\ Len(new) > Len(old)
          /\ Q.role = "user" /\ Q.content \in FollowUpQuestions
          /\ last'.prompt.template = "follow_up"
          /\ IsHistoryOf(last'.prompt.history, old)
          /\ last'.prompt.question = Q.content]_vars

\* a follow-up on a thread that already holds an answered follow-up
C13_Witness ==
    /\ last.act = "follow_up"
    /\ last.prompt.template = "follow_up"
    /\ last.prompt.question = Q_FOLLOW
    /\ \E i \in 1..Len(analysis_threads) :
          /\ analysis_threads[i].id = selected_thread_id
          /\ Len(analysis_threads[i].messages) >= 5
          /\ IsHistoryOf(last.prompt.history, SubSeq(analysis_threads[i].messages, 1, 4))

Returned(fn) == call.fn = fn /\ call.done

\* text t is text x without the whitespace at its two ends
IsTrimOf(t, x) ==
    \E a \in 0..Len(x) : \E b \in 0..(Len(x) - a) :
        /\ t = SubSeq(x, a + 1, Len(x) - b)
        /\ \A k \in 1..a : x[k] \in Whitespace
        /\ \A k \in (Len(x) - b + 1)..Len(x) : x[k] \in Whitespace
        /\ t # <<>> => t[1] \notin Whitespace /\ t[Len(t)] \notin Whitespace

\* a fenced block labelled sql: the opener line at i, the closer at j, the
\* content between them
IsBlock(r, i, j) ==
    /\ OccursAt(<<FENCE, SQL_LABEL, NEWLINE>>, r, i)
    /\ OccursAt(<<NEWLINE, FENCE>>, r, j)
    /\ j >= i + 3

\* C14: SQL extraction.  For every response that holds a fenced block
\* labelled sql the extracted SQL is the content of the first block, from
\* its opener to the nearest closer, without the whitespace at its ends, and
\* nothing of a later block; for every response without such a block it is
\* the whole response without the whitespace at its ends.
C14_SqlExtraction ==
    Returned("get_sql_from_ai_response") =>
        LET r == call.arg
            Blocks == {ij \in (1..Len(r)) \X (1..Len(r)) : IsBlock(r, ij[1], ij[2])} IN
        IF Blocks # {}
        THEN \E first \in Blocks :
                /\ \A other \in Blocks :
                      \/ first[1] < other[1]
                      \/ first[1] = other[1] /\ first[2] <= other[2]
                /\ IsTrimOf(call.result, SubSeq(r, first[1] + 3, first[2] - 1))
        ELSE IsTrimOf(call.result, r)

\* a response with two blocks: the SQL is the content of the first one
C14_Witness ==
    /\ Returned("get_sql_from_ai_response")
    /\ call.arg = <<FENCE, SQL_LABEL, NEWLINE, "S1", NEWLINE, FENCE,
                    FENCE, SQL_LABEL, NEWLINE, NEWLINE, FENCE>>
    /\ call.result = <<"S1">>

\* C15: title truncation.  The title of a thread created for question q is
\* q itself when q has at most 35 characters, and otherwise the first 35
\* characters of q followed by three dots, 38 characters in all.
C15_TitleTruncation ==
    Returned("create_new_thread") =>
        LET q == call.arg
            title == call.result IN
        /\ analysis_threads[1].title = title
        /\ analysis_threads[1].messages[1].content = q
        /\ IF Len(q) <= 35 THEN title = q
           ELSE /\ Len(title) = 38
                /\ \A i \in 1..35 : title[i] = q[i]
                /\ \A i \in 36..38 : title[i] = 46

\* a question of 36 different characters
C15_Witness ==
    /\ Returned("create_new_thread")
    /\ call.arg = Question(36, 1)
    /\ Len(call.result) = 38
    /\ call.result[35] # call.result[36]

DdlsOf(context) == SelectSeq(context, LAMBDA part : part.kind = "ddl")

\* C16: partial failure of the context builder.  For every list of tables
\* and every subset of them whose DDL retrieval fails, the builder of either
\* page returns a context, and the context holds the DDL of exactly the
\* tables whose retrieval succeeded, in the order the tables were listed,
\* those listed after a failing table included.
C16_ContextPartialFailure ==
    (Returned("get_database_context") \/ Returned("dba_get_database_context")) =>
        /\ ~call.result.raised
        /\ DdlsOf(call.result.context) =
               SelectSeq([i \in 1..Len(call.arg.table_names) |->
                             Part("ddl", call.arg.table_names[i])],
                         LAMBDA part : part.name \notin call.arg.failing)

\* C17: no data loss on a write failure.  When a write of the history file
\* fails the failure is reported and the file still holds a complete
\* collection: reading it back gives what it gave before the operation, or
\* the collection an earlier write of the same operation stored; it never
\* gives an empty or shorter collection because of the failed write.
C17_NoDataLossOnWriteFailure ==
    [][FailedWriteStep =>
          /\ Has(last'.ops, "save_error")
          /\ \/ load_threads_from_disk(disk') = load_threads_from_disk(disk)
             \/ WellFormedList(disk')]_vars

\* C18: correction ordering.  In a run of either page a correction call
\* comes right after a failed SQL execution, and only after the first one;
\* its prompt carries the SQL of that execution and the error it raised; the
\* execution that follows uses the SQL extracted from the correction
\* response and not the SQL that failed; every step follows the one before.
C18_CorrectionOrdering ==
    \A i \in 1..Len(Trace) :
        Trace[i].op = "llm_corrector" =>
            /\ i > 1
            /\ Trace[i-1].op = "exec" /\ ~Trace[i-1].ok
            /\ Count(SubSeq(Trace, 1, i - 1), {"exec"}) < MAX_ATTEMPTS
            /\ Trace[i].sql = Trace[i-1].sql
            /\ Trace[i].err = Trace[i-1].err
            /\ Trace[i].ok =>
                  /\ i < Len(Trace)
                  /\ Trace[i+1].op = "exec"
                  /\ Trace[i+1].sql \in {get_sql_from_ai_response(r) : r \in CorrResponses}
                  /\ Trace[i+1].sql # Trace[i-1].sql

\* C19: pipeline termination.  Every run of run_analysis_pipeline, whatever
\* the generation, execution and report calls answer, ends after at most six
\* calls in exactly one of: a returned report, the failure shown followed by
\* st.stop(), or an exception that leaves the run; it never returns None.
C19_PipelineTermination ==
    last.pipe.page = "eda" =>
        /\ Len(Trace) <= 1 + 2 * MAX_ATTEMPTS + (MAX_ATTEMPTS - 1)
        /\ last.pipe.outcome \in {"report", "stopped", "raised"}
        /\ last.pipe.outcome = "report" =>
               /\ Trace[Len(Trace)].op = "llm_report" /\ Trace[Len(Trace)].ok
               /\ last.pipe.shown_error = ""
               /\ last.exc # TYPE_ERROR
        /\ last.pipe.outcome = "stopped" =>
               /\ last.pipe.shown_error # ""
               /\ last.pipe.report = <<>>
               /\ ~Trace[Len(Trace)].ok
        /\ last.pipe.outcome = "raised" =>
               /\ last.exc = TYPE_ERROR
               /\ last.pipe.shown_error = ""
               /\ last.pipe.report = <<>>
               /\ ~Trace[Len(Trace)].ok

\* the longest run: both attempts execute and both report calls fail
C19_Witness ==
    /\ last.pipe.page = "eda"
    /\ Len(Trace) = 6
    /\ last.pipe.outcome = "stopped"
    /\ last.pipe.shown_error = TYPE_ERROR

\* C20: expiry of the cached schema context.  The context a pipeline run is
\* given was built less than the cache window before the run: once the
\* window of a cached context (a partial one included) has passed, the next
\* run gets a context built anew.
C20_ContextCacheExpiry ==
    cache.used.set => cache.used_at - cache.used.built_at < CACHE_TTL

\* thread t is in collection ts as it is
Kept(t, ts) == \E j \in 1..Len(ts) : ts[j] = t

\* C21: thread identity and frame.  A thread keeps its id and title for as
\* long as it is in the collection; a follow-up leaves every thread but the
\* one shown as it was, and a delete leaves every remaining thread as it was;
\* the new-analysis action and the selection of a thread leave the
\* collection and the history file as they were and change the view state
\* only.
C21_ThreadIdentityAndFrame ==
    [][/\ \A i \in 1..Len(analysis_threads) : \A j \in 1..Len(analysis_threads') :
             analysis_threads'[j].id = analysis_threads[i].id =>
                 analysis_threads'[j].title = analysis_threads[i].title
       /\ last'.act = "follow_up" =>
             \A i \in 1..Len(analysis_threads) :
                 analysis_threads[i].id # selected_thread_id =>
                     Kept(analysis_threads[i], analysis_threads')
       /\ last'.act = "delete_thread" =>
             \A j \in 1..Len(analysis_threads') :
                 Kept(analysis_threads'[j], analysis_threads)
       /\ last'.act \in {"new_analysis", "select_thread"} =>
             analysis_threads' = analysis_threads /\ disk' = disk]_vars

\* C22: two sessions on one history file.  A thread that is in the file,
\* with the messages it has there, is still in the file with at least those
\* messages after every operation of either session, unless that operation
\* is clear-all or the delete of that thread: what one session stored is
\* not removed by the other session's create, append or delete of another
\* thread.
C22_NoLostUpdate ==
    [][last'.act # "clear_all" =>
          LET before == load_threads_from_disk(disk).value
              after == load_threads_from_disk(disk').value IN
          \A i \in 1..Len(before) :
              \/ /\ last'.act = "delete_thread"
                 /\ HasThread(analysis_threads, before[i].id)
                 /\ ~HasThread(analysis_threads', before[i].id)
              \/ \E j \in 1..Len(after) :
                    /\ after[j].id = before[i].id
                    /\ IsPrefix(before[i].messages, after[j].messages)]_vars

\* C23: view-state consistency.  After every user action of a session the
\* view is new_analysis exactly when no thread is selected, a view_thread
\* view has the id of a thread of the collection selected, and clear-all
\* ends in new_analysis with an empty collection.
C23_ViewStateConsistency ==
    /\ current_view \in {"new_analysis", "view_thread"}
    /\ current_view = "new_analysis" <=> selected_thread_id = None
    /\ current_view = "view_thread" => HasThread(analysis_threads, selected_thread_id)
    /\ last.act = "clear_all" =>
          current_view = "new_analysis" /\ analysis_threads = <<>>

\* one of two threads was deleted while the other was shown
C23_Witness ==
    /\ last.act = "delete_thread"
    /\ current_view = "view_thread"
    /\ Ids(analysis_threads) = <<selected_thread_id>>
    /\ last.ops = <<"delete_thread">>

\* thread t ends with a user message
EndsWithUser(t) == t.messages # <<>> /\ t.messages[Len(t.messages)].role = "user"

\* the step ends with a script run that shows the thread with this id
RendersThread(id) ==
    /\ last'.act \in {"follow_up", "select_thread", "delete_thread"}
    /\ current_view' = "view_thread"
    /\ selected_thread_id' = id

\* C24: recovery of a failed follow-up.  When the pipeline run of a
\* follow-up fails, the question stays in the thread as its last message,
\* in memory and in the file.  While a thread ends with a user message,
\* nothing but the answer is added to it: every script run that shows it
\* runs the pipeline for that question, and a run that succeeds appends
\* exactly one assistant message right after the question.  A script run
\* that shows a thread ending with an assistant message runs no pipeline.
C24_FailedFollowUpRecovery ==
    [][/\ (last'.act = "follow_up" /\ last'.pipe.outcome # "report") =>
             LET old == get_one_thread(analysis_threads, selected_thread_id)
                 new == get_one_thread(analysis_threads', selected_thread_id) IN
             /\ new.messages = Append(old.messages, Msg("user", last'.prompt.question))
             /\ Kept(new, load_threads_from_disk(disk').value)
       /\ \A i \in 1..Len(analysis_threads) :
             LET t == analysis_threads[i] IN
             (last'.act # "restart" /\ HasThread(analysis_threads', t.id)) =>
                 LET new == get_one_thread(analysis_threads', t.id).messages
                     answered == Append(t.messages, Msg("assistant", last'.pipe.report)) IN
                 IF EndsWithUser(t)
                 THEN /\ new = t.messages \/ new = answered
                      /\ RendersThread(t.id) =>
                            /\ last'.pipe.page = "eda"
                            /\ last'.prompt.question = t.messages[Len(t.messages)].content
                            /\ last'.pipe.outcome = "report" => new = answered
                 ELSE (RendersThread(t.id) /\ last'.act # "follow_up") =>
                            last'.pipe = NoRun /\ new = t.messages]_vars

====
